---- MODULE Spec2Model ----
(***************************************************************************)
(* The three notebooks of the repository as one state machine.             *)
(*                                                                         *)
(*   "heater" : the heater tutorial (ideal BTX property package)           *)
(*   "custom" : the custom Heater unit model and its test cells            *)
(*   "pr"     : PR_model of the parameter-estimation notebook and the      *)
(*              square-problem test cell                                   *)
(*                                                                         *)
(* A notebook is a sequence of statements (Program); pc is the index of    *)
(* the next statement and every statement carries the source line it       *)
(* stands on.  One action exists per kind of statement.  The state of the  *)
(* modelling object is, for every variable of the flowsheet, its fixed     *)
(* flag and its value.  Values are integers in the units given below.      *)
(*                                                                         *)
(* Units.  heater: flow 1e-5 mol/s, mole fraction 1e-3, pressure Pa,       *)
(*         temperature mK, heat duty mW.                                   *)
(*         custom: flow kmol, mole fraction 1e-2, pressure 1e-1 MPa,       *)
(*         temperature 1e-4 hK (1 hK = 100 K), heat 1e-4 MJ.               *)
(*         pr: flow mol/s, temperature K, pressure Pa, mole fraction 1e-2, *)
(*         PR_kappa 1e-3, SSE a pair <<1e-1, 1e-7>>.                       *)
(***************************************************************************)
EXTENDS Integers, Sequences, FiniteSets

VARIABLES nb, pc, halted, config, unit, data, fixed, value, bounds,
          DOF_initial, DOF_final, solve_status, heat_duty, it, solves, inits, sse

vars == <<nb, pc, halted, config, unit, data, fixed, value, bounds,
          DOF_initial, DOF_final, solve_status, heat_duty, it, solves, inits, sse>>

----------------------------------------------------------------------------
(* Arithmetic helpers *)

Abs(a) == IF a < 0 THEN -a ELSE a

\* integer division rounded to the nearest integer (b > 0, a >= 0)
RoundDiv(a, b) == (2 * a + b) \div (2 * b)

\* pytest.approx(expected, abs=tol)
Approx(actual, expected, tol) == Abs(actual - expected) <= tol

RECURSIVE SumOver(_, _)
SumOver(f, S) ==
    IF S = {} THEN 0
    ELSE LET e == CHOOSE e \in S : TRUE IN f[e] + SumOver(f, S \ {e})

----------------------------------------------------------------------------
(* Statements.  var names a variable of the model (or of the notebook), val
   is the statement's literal (for "for", "if_optimal" and "append": the source
   line execution continues at when the loop is left or repeated). *)

V(name) == <<name, "">>

I(op, var, val, line) == [op |-> op, var |-> var, val |-> val, tol |-> 0, line |-> line]

A(var, val, tol, line) ==
    [op |-> "assert_approx", var |-> var, val |-> val, tol |-> tol, line |-> line]

----------------------------------------------------------------------------
(* The heater tutorial *)

\* 1*1000/3600 mol/s, in 1e-5 mol/s
FEED_FLOW == 27778

\* m.fs.heater.heat_duty.fix(459.10147722222354), in mW
HEAT_DUTY_CASE2 == 459101

INLET_TEMPERATURE == 353000

OUTLET_TEMPERATURE == 363000

\* the list of outlet temperatures of the sweep (celsius + 273.15), in mK
outlet_temp_fixed ==
    << 364406, 363978, 359685, 362533, 367124,
       358527, 365549, 367302, 360715, 361918 >>

HeaterComps == {"benzene", "toluene"}

InletX(j) == <<"inlet.mole_frac_comp", j>>
OutletX(j) == <<"outlet.mole_frac_comp", j>>
\* the statement sequence without the statement on a source line
Without(prog, line) == SelectSeq(prog, LAMBDA st : st.line # line)

\* the statement sequence with the literal of the statement on a line replaced
WithLiteral(prog, line, val) ==
    [k \in DOMAIN prog |-> IF prog[k].line = line THEN [prog[k] EXCEPT !.val = val] ELSE prog[k]]

\* Setting up the problem: build, degrees of freedom, inlet and outlet temperature
HeaterSetup ==
    << I("dof", V("DOF_initial"), 0, 91),
       I("assert_eq", V("DOF_initial"), 6, 107),
       I("fix", V("inlet.flow_mol"), FEED_FLOW, 117),
       I("fix", InletX("benzene"), 400, 118),
       I("fix", InletX("toluene"), 600, 119),
       I("fix", V("inlet.pressure"), 101325, 120),
       I("fix", V("inlet.temperature"), INLET_TEMPERATURE, 121),
       I("fix", V("outlet.temperature"), OUTLET_TEMPERATURE, 137),
       I("dof", V("DOF_final"), 0, 139),
       I("assert_eq", V("DOF_final"), 0, 154) >>

\* Case 1: initialize, solve with the outlet temperature fixed, check
HeaterCase1 ==
    << I("initialize", V(""), 0, 177),
       I("initialize", V(""), 0, 188),
       I("solve", V(""), 0, 208),
       I("assert_status", V("termination_condition"), "optimal", 223),
       I("assert_status", V("status"), "ok", 224),
       I("display", V(""), 0, 241),
       I("display", V(""), 0, 251),
       A(V("heat_duty"), 459100, 10, 268),
       A(V("outlet.flow_mol"), 27778, 1000, 270),
       A(OutletX("benzene"), 400, 1, 271),
       A(OutletX("toluene"), 600, 1, 272),
       A(V("outlet.temperature"), 363000, 10, 273),
       A(V("outlet.pressure"), 101325, 1, 274) >>

\* Case 2: fix the heat duty instead, solve, check
HeaterCase2 ==
    << I("unfix", V("outlet.temperature"), 0, 291),
       I("fix", V("heat_duty"), HEAT_DUTY_CASE2, 292),
       I("solve", V(""), 0, 293),
       I("assert_status", V("termination_condition"), "optimal", 308),
       I("assert_status", V("status"), "ok", 309),
       I("display", V(""), 0, 319),
       I("display", V(""), 0, 329),
       A(V("heat_duty"), 459100, 10, 344),
       A(V("outlet.flow_mol"), 27778, 1000, 346),
       A(OutletX("benzene"), 400, 1, 347),
       A(OutletX("toluene"), 600, 1, 348),
       A(V("outlet.temperature"), 363000, 10, 349),
       A(V("outlet.pressure"), 101325, 1, 350) >>

\* Plotting Q vs. outlet temperature: the sweep and the plot
HeaterSweep ==
    << I("unfix", V("heat_duty"), 0, 371),
       I("display", V(""), 0, 374),
       I("list_init", V(""), 0, 386),
       I("for", V(""), 405, 387),
       I("fix_temp", V("outlet.temperature"), 0, 388),
       I("solve", V(""), 0, 389),
       I("if_optimal", V(""), 387, 390),
       I("append", V("heat_duty"), 387, 391),
       I("display", V(""), 0, 405) >>

\* the tutorial with the inlet pressure left free
HeaterTutorial_PressureNotFixed ==
    Without(HeaterSetup, 120) \o HeaterCase1 \o HeaterCase2 \o HeaterSweep

\* the tutorial with case 2 fixing the heat duty without unfixing the outlet temperature
HeaterTutorial_NoUnfix ==
    HeaterSetup \o HeaterCase1 \o Without(HeaterCase2, 291) \o HeaterSweep

\* the tutorial with case 2 fixing the heat duty to the 2 J/s of the introduction
HeaterTutorial_TwoJoules ==
    HeaterSetup \o HeaterCase1 \o WithLiteral(HeaterCase2, 292, 2000) \o HeaterSweep

\* the tutorial without the cell that checks the termination of case 1
HeaterTutorial_NoTerminationCheck ==
    HeaterSetup \o Without(Without(HeaterCase1, 223), 224) \o HeaterCase2 \o HeaterSweep

\* the tutorial with the sweep run right after the specification
HeaterTutorial_SweepFirst == HeaterSetup \o HeaterSweep \o HeaterCase1 \o HeaterCase2

\* the tutorial with the sweep appending the heat duty whatever the solver returned
HeaterTutorial_AppendAlways ==
    HeaterSetup \o HeaterCase1 \o HeaterCase2 \o Without(HeaterSweep, 390)

\* the tutorial with the sweep fixing the outlet temperature without unfixing the heat duty
HeaterTutorial_SweepNoUnfix ==
    HeaterSetup \o HeaterCase1 \o HeaterCase2 \o Without(HeaterSweep, 371)

HeaterTutorial == HeaterSetup \o HeaterCase1 \o HeaterCase2 \o HeaterSweep

----------------------------------------------------------------------------
(* The custom Heater notebook *)

CustomComps == {"CH3OH", "CH4", "H2", "CO"}

\* PhysicalParameterBlock(default={'Cp': 0.038056, ...}), MJ/kmol-K, in 1e-6
Cp == 38056

\* the flowsheet cell: build, specify, solve, display
CustomFlowsheet ==
    << I("construct", V(""), 0, 128),
       I("fix", V("inlet.flow_mol"), 1, 129),
       I("fix", InletX("CH3OH"), 25, 130),
       I("fix", InletX("CH4"), 25, 131),
       I("fix", InletX("H2"), 25, 132),
       I("fix", InletX("CO"), 25, 133),
       I("fix", V("inlet.pressure"), 1, 134),
       I("fix", V("inlet.temperature"), 30000, 135),
       I("fix", V("heat"), 50000, 136),
       I("solve", V(""), 0, 139),
       I("display", V(""), 0, 140),
       I("display", V(""), 0, 141) >>

\* the testing cells
CustomChecks ==
    << I("display", V(""), 0, 156),
       I("assert_status", V("termination_condition"), "optimal", 172),
       A(V("outlet.temperature"), 43138, 10, 173),
       I("display", V(""), 0, 187) >>

CustomHeaterTest == CustomFlowsheet \o CustomChecks

\* a Heater constructed with options other than the flowsheet cell's: the
\* construction alone
CustomConstruct == SubSeq(CustomFlowsheet, 1, 1)

----------------------------------------------------------------------------
(* The parameter-estimation notebook *)

PRComps == {"bmimPF6", "carbon_dioxide"}

X(j) == <<"mole_frac_comp", j>>
XLiq(j) == <<"mole_frac_phase_comp[Liq]", j>>
PR_kappa(i, j) == <<"PR_kappa[" \o i \o "]", j>>

\* x = float(data["x_carbon_dioxide"])+0.5
x(row) == row.x_carbon_dioxide + 50

\* the specification the state block is initialized with
PR_initial(row) ==
    << I("fix", V("flow_mol"), 1, 142),
       I("fix", V("temperature"), row.temperature, 144),
       I("fix", V("pressure"), row.pressure, 145),
       I("fix", X("bmimPF6"), 100 - x(row), 146),
       I("fix", X("carbon_dioxide"), x(row), 147),
       I("fix", PR_kappa("bmimPF6", "bmimPF6"), 0, 150),
       I("fix", PR_kappa("bmimPF6", "carbon_dioxide"), -47, 151),
       I("fix", PR_kappa("carbon_dioxide", "carbon_dioxide"), 0, 152),
       I("fix", PR_kappa("carbon_dioxide", "bmimPF6"), 2, 153),
       I("initialize", V(""), 0, 156) >>

\* "Fix the state variables on the state block" and the bounds of the parameters
PR_respecify(row) ==
    << I("unfix", V("pressure"), 0, 159),
       I("fix", V("temperature"), row.temperature, 160),
       I("fix", XLiq("bmimPF6"), row.x_bmimPF6, 161),
       I("fix", XLiq("carbon_dioxide"), row.x_carbon_dioxide, 162),
       I("fix", X("bmimPF6"), row.x_bmimPF6, 163),
       I("unfix", X("carbon_dioxide"), 0, 164),
       I("setlb", PR_kappa("bmimPF6", "carbon_dioxide"), -5000, 166),
       I("setub", PR_kappa("bmimPF6", "carbon_dioxide"), 5000, 167),
       I("setlb", PR_kappa("carbon_dioxide", "bmimPF6"), -5000, 169),
       I("setub", PR_kappa("carbon_dioxide", "bmimPF6"), 5000, 170) >>

\* PR_model leaving mole_frac_comp of carbon dioxide fixed
PR_model_NoUnfix(row) ==
    PR_initial(row) \o Without(PR_respecify(row), 164) \o << I("display", V(""), 0, 173) >>

\* PR_model initializing the state block with the pressure left free
PR_model_PressureNotFixed(row) ==
    Without(PR_initial(row), 145) \o PR_respecify(row) \o << I("display", V(""), 0, 173) >>

PR_model(row) == PR_initial(row) \o PR_respecify(row) \o << I("display", V(""), 0, 173) >>

\* the cell that builds the model for test_data and checks that it is square
SquareProblem(row) == PR_model(row) \o << I("assert_dof", V(""), 0, 213) >>

\* pest = parmest.Estimator(PR_model, data, variable_name, SSE) and
\* pest.theta_est(): the model PR_model returned for the row is solved and the
\* expression SSE returns is evaluated on it
Estimation(row) ==
    << I("solve", V(""), 0, 487),
       I("sse", V("pressure"), 0, 253) >>

\* the cells of the notebook that use PR_model
ParameterEstimation(row) == SquareProblem(row) \o Estimation(row)

\* test_data = {"temperature": 298, "pressure": 812323, "x_bmimPF6":0.86, "x_carbon_dioxide":0.14}
test_data ==
    [temperature |-> 298, pressure |-> 812323, x_bmimPF6 |-> 86, x_carbon_dioxide |-> 14]

----------------------------------------------------------------------------
(* Unit models: configuration, control volume, variables and equations *)

\* The configuration the notebook passes, with the defaults of make_config_block;
\* dynamic and has_holdup are inherited from the flowsheet.
HeaterConfig(dynamic, has_holdup) ==
    [ dynamic |-> dynamic,
      has_holdup |-> has_holdup,
      material_balance_type |-> "componentPhase",
      energy_balance_type |-> "enthalpyTotal",
      momentum_balance_type |-> "pressureTotal",
      has_phase_equilibrium |-> FALSE,
      has_pressure_change |-> FALSE ]

\* the members of the enumerations of balance types
MaterialBalanceType ==
    { "useDefault", "none", "componentPhase", "componentTotal", "elementTotal" }

\* make_config_block accepting any boolean for has_pressure_change
make_config_block_AnyPressureChange ==
    [ material_balance_type |-> [default |-> "componentPhase", domain |-> MaterialBalanceType],
      energy_balance_type |-> [default |-> "enthalpyTotal", domain |-> {"enthalpyTotal"}],
      momentum_balance_type |-> [default |-> "pressureTotal", domain |-> {"pressureTotal"}],
      has_phase_equilibrium |-> [default |-> FALSE, domain |-> {FALSE}],
      has_pressure_change |-> [default |-> FALSE, domain |-> BOOLEAN] ]

\* make_config_block accepting the phase enthalpy balance as well
make_config_block_AnyEnthalpyBalance ==
    [ material_balance_type |-> [default |-> "componentPhase", domain |-> MaterialBalanceType],
      energy_balance_type |->
          [default |-> "enthalpyTotal", domain |-> {"enthalpyTotal", "enthalpyPhase"}],
      momentum_balance_type |-> [default |-> "pressureTotal", domain |-> {"pressureTotal"}],
      has_phase_equilibrium |-> [default |-> FALSE, domain |-> {FALSE}],
      has_pressure_change |-> [default |-> FALSE, domain |-> {FALSE}] ]

\* The options make_config_block declares: default and domain of each
make_config_block ==
    [ material_balance_type |-> [default |-> "componentPhase", domain |-> MaterialBalanceType],
      energy_balance_type |-> [default |-> "enthalpyTotal", domain |-> {"enthalpyTotal"}],
      momentum_balance_type |-> [default |-> "pressureTotal", domain |-> {"pressureTotal"}],
      has_phase_equilibrium |-> [default |-> FALSE, domain |-> {FALSE}],
      has_pressure_change |-> [default |-> FALSE, domain |-> {FALSE}] ]

\* In(domain): the config block takes a value of the domain and raises
\* ValueError for any other
ConfigAccepts(cfg) ==
    \A k \in DOMAIN make_config_block : cfg[k] \in make_config_block[k].domain

\* the name of the error a rejected option value raises when the configuration is set
ConfigError == "ValueError: invalid value for configuration"

NoUnit ==
    [ built |-> FALSE,
      balance_type |-> "none",
      has_phase_equilibrium |-> FALSE,
      energy_balance |-> "none",
      momentum_balance |-> "none",
      has_heat_of_reaction |-> FALSE,
      has_heat_transfer |-> FALSE,
      has_work_transfer |-> FALSE,
      has_pressure_change |-> FALSE ]

\* make_control_volume testing has_holdup before dynamic
make_control_volume_error_HoldupFirst(cfg) ==
    IF cfg.has_holdup # FALSE THEN "does not support holdup"
    ELSE IF cfg.dynamic # FALSE THEN "does not support dynamics"
    ELSE "none"

\* The ValueError make_control_volume raises, "none" when it raises nothing
make_control_volume_error(cfg) ==
    IF cfg.dynamic # FALSE THEN "does not support dynamics"
    ELSE IF cfg.has_holdup # FALSE THEN "does not support holdup"
    ELSE "none"

\* make_control_volume asking for a pressure change
make_control_volume_PressureChange(cfg) ==
    [ built |-> TRUE,
      balance_type |-> cfg.material_balance_type,
      has_phase_equilibrium |-> cfg.has_phase_equilibrium,
      energy_balance |-> "enthalpyTotal",
      momentum_balance |-> "pressureTotal",
      has_heat_of_reaction |-> FALSE,
      has_heat_transfer |-> TRUE,
      has_work_transfer |-> FALSE,
      has_pressure_change |-> TRUE ]

\* make_control_volume asking for no heat transfer
make_control_volume_NoHeatTransfer(cfg) ==
    [ built |-> TRUE,
      balance_type |-> cfg.material_balance_type,
      has_phase_equilibrium |-> cfg.has_phase_equilibrium,
      energy_balance |-> "enthalpyTotal",
      momentum_balance |-> "pressureTotal",
      has_heat_of_reaction |-> FALSE,
      has_heat_transfer |-> FALSE,
      has_work_transfer |-> FALSE,
      has_pressure_change |-> FALSE ]

\* The control volume make_control_volume attaches to the unit
make_control_volume(cfg) ==
    [ built |-> TRUE,
      balance_type |-> cfg.material_balance_type,
      has_phase_equilibrium |-> cfg.has_phase_equilibrium,
      energy_balance |-> "enthalpyTotal",
      momentum_balance |-> "pressureTotal",
      has_heat_of_reaction |-> FALSE,
      has_heat_transfer |-> TRUE,
      has_work_transfer |-> FALSE,
      has_pressure_change |-> FALSE ]

\* Heater(default={"property_package": m.fs.properties}) of the model library:
\* a control volume with heat transfer and no pressure change
LibraryHeater ==
    [ built |-> TRUE,
      balance_type |-> "componentPhase",
      has_phase_equilibrium |-> FALSE,
      energy_balance |-> "enthalpyTotal",
      momentum_balance |-> "pressureTotal",
      has_heat_of_reaction |-> FALSE,
      has_heat_transfer |-> TRUE,
      has_work_transfer |-> FALSE,
      has_pressure_change |-> FALSE ]

Comps(n) ==
    CASE n = "heater" -> HeaterComps
      [] n = "custom" -> CustomComps
      [] n = "pr" -> PRComps

\* the name of the heat duty variable: heat_duty in the library heater,
\* add_object_reference(self, 'heat', ...) in the custom one
Heat(n) == IF n = "custom" THEN V("heat") ELSE V("heat_duty")

\* the value of a mole fraction of one
XUnit(n) == IF n = "heater" THEN 1000 ELSE 100

PortVars(port, comps) ==
    { V(port \o ".flow_mol"), V(port \o ".pressure"), V(port \o ".temperature") }
      \cup { <<port \o ".mole_frac_comp", j>> : j \in comps }

\* the variables of a heater: inlet port, outlet port and heat duty
HeaterVars(n) ==
    PortVars("inlet", Comps(n)) \cup PortVars("outlet", Comps(n)) \cup { Heat(n) }

\* the variables of the state block and the binary interaction parameters
StateBlockVars ==
    { V("flow_mol"), V("temperature"), V("pressure") }
      \cup { X(j) : j \in PRComps } \cup { XLiq(j) : j \in PRComps }
      \cup { PR_kappa(i, j) : i \in PRComps, j \in PRComps }

\* the equations of a heater whose control volume has no enthalpy balance
Equations_NoEnthalpyBalance(n, u) ==
    IF n = "pr" THEN { <<"eq_mole_frac_phase_comp[Liq]", j>> : j \in PRComps }
    ELSE IF ~u.built THEN {}
    ELSE { <<"material_balances", j>> : j \in Comps(n) }
           \cup { V("pressure_balance"), V("sum_mole_frac_out") }

\* The equality constraints of the model.  A heater has one material balance
\* per component, the enthalpy balance, the pressure balance and the outlet
\* state block's sum of mole fractions.  The state block of PR_model
\* (defined_state True) is square when flow_mol, temperature, pressure and the
\* two mole_frac_comp are fixed, which is how it is initialized; it is counted
\* net of its other property variables, which leaves one equation for each
\* liquid-phase mole fraction.
Equations(n, u) ==
    IF n = "pr" THEN { <<"eq_mole_frac_phase_comp[Liq]", j>> : j \in PRComps }
    ELSE IF ~u.built THEN {}
    ELSE { <<"material_balances", j>> : j \in Comps(n) }
           \cup { V("enthalpy_balances"), V("pressure_balance"), V("sum_mole_frac_out") }

\* degrees of freedom counted over all variables, fixed or not
degrees_of_freedom_AllVariables(n, u, fx) ==
    Cardinality(DOMAIN fx) - Cardinality(Equations(n, u))

\* degrees_of_freedom(m): unfixed variables minus equality constraints
degrees_of_freedom(n, u, fx) ==
    Cardinality({ v \in DOMAIN fx : ~fx[v] }) - Cardinality(Equations(n, u))

----------------------------------------------------------------------------
(* The objective of the parameter estimation *)

\* d**2 as the pair <<q, r>> with d * d = q * 10^6 + r and 0 <= r < 10^6
\* (the square of a pressure difference in Pa exceeds the integers at hand)
Squared(d) ==
    LET a == Abs(d) \div 1000
        b == Abs(d) % 1000
        t == 2 * a * b * 1000 + b * b
    IN  << a * a + t \div 1000000, t % 1000000 >>

\* SSE without the square: the deviation itself
SSE_Deviation(m, row) ==
    << (row.pressure - m[V("pressure")]) \div 1000000,
       (row.pressure - m[V("pressure")]) % 1000000 >>

\* SSE(m, data): ((float(data["pressure"]) - m.fs.state_block[1].pressure)**2)*1e-7,
\* as <<q, r>> standing for q * 1e-1 + r * 1e-7
SSE(m, row) == Squared(row.pressure - m[V("pressure")])

NoSSE == << -1, -1 >>

----------------------------------------------------------------------------
(* The balance equations a solution satisfies *)

\* Heat capacity flow of the tutorial's feed, mW per K: the heat duty of line
\* 292 belongs to the 10 K rise of line 137 at the feed flow of line 117, and
\* scales with the flow.
HeatCapacityFlow(F) == (F * (HEAT_DUTY_CASE2 \div 10)) \div FEED_FLOW

\* heat duty (mW) that raises the stream by dT (mK)
HeatDuty(F, dT) == RoundDiv(HeatCapacityFlow(F) * dT, 1000)

\* outlet temperature (mK) the heat duty Q (mW) gives
OutletTemp(F, Tin, Q) == Tin + RoundDiv(Q * 1000, HeatCapacityFlow(F))

\* custom heater: heat (1e-4 MJ) for a rise dT (1e-4 hK) at flow F (kmol),
\* F * Cp * (100 * dT)
CustomHeat(F, dT) == RoundDiv(F * Cp * dT, 10000)

CustomOutletTemp(F, Tin, Q) == Tin + RoundDiv(Q * 10000, F * Cp)

\* the enthalpy balance, to the resolution of the heat or of the temperature
EnthalpyBalance(n, u, F, Tin, Tout, Q) ==
    LET q == IF u.has_heat_transfer THEN Q ELSE 0 IN
    IF n = "custom"
    THEN /\ F > 0
         /\ \/ q = CustomHeat(F, Tout - Tin)
            \/ Tout = CustomOutletTemp(F, Tin, q)
    ELSE /\ HeatCapacityFlow(F) > 0
         /\ \/ q = HeatDuty(F, Tout - Tin)
            \/ Tout = OutletTemp(F, Tin, q)

\* s satisfies every equation of the heater
Balances(n, u, s) ==
    /\ \A j \in Comps(n) :
          s[V("outlet.flow_mol")] * s[OutletX(j)] = s[V("inlet.flow_mol")] * s[InletX(j)]
    /\ SumOver([j \in Comps(n) |-> s[OutletX(j)]], Comps(n)) = XUnit(n)
    /\ u.has_pressure_change \/ s[V("outlet.pressure")] = s[V("inlet.pressure")]
    /\ EnthalpyBalance(n, u, s[V("inlet.flow_mol")], s[V("inlet.temperature")],
                       s[V("outlet.temperature")], s[Heat(n)])

\* The values the solver tries for a free variable
Candidates(n, v) ==
    LET kind == v[1]
        temps == { INLET_TEMPERATURE, OUTLET_TEMPERATURE, OUTLET_TEMPERATURE + 20 }
                   \cup { outlet_temp_fixed[k] : k \in DOMAIN outlet_temp_fixed }
    IN
    CASE n = "heater" ->
           ( CASE kind \in {"inlet.flow_mol", "outlet.flow_mol"} -> { FEED_FLOW, 20000 }
               [] kind \in {"inlet.mole_frac_comp", "outlet.mole_frac_comp"} ->
                    { 400, 500, 600 }
               [] kind \in {"inlet.pressure", "outlet.pressure"} -> { 101325, 100000 }
               [] kind = "inlet.temperature" -> { INLET_TEMPERATURE }
               [] kind = "outlet.temperature" -> temps
               [] kind = "heat_duty" ->
                    { HeatDuty(FEED_FLOW, t - INLET_TEMPERATURE) : t \in temps }
                      \cup { HEAT_DUTY_CASE2, 2000 } )
      [] n = "custom" ->
           ( CASE kind \in {"inlet.flow_mol", "outlet.flow_mol"} -> { 1, 2 }
               [] kind \in {"inlet.mole_frac_comp", "outlet.mole_frac_comp"} ->
                    { 0, 25, 50 }
               [] kind \in {"inlet.pressure", "outlet.pressure"} -> { 1, 2 }
               [] kind = "inlet.temperature" -> { 30000 }
               [] kind = "outlet.temperature" -> { 30000, 43129, 43138, 43139, 43149 }
               [] kind = "heat" -> { 0, 50000 } )
      [] n = "pr" ->
           ( CASE kind = "mole_frac_phase_comp[Liq]" -> { 14, 86 }
               [] kind = "pressure" -> { 100000, 100001, 812323, 812324 }
               [] OTHER -> { 0 } )

\* every assignment of candidate values to the variables of Free
RECURSIVE Assignments(_, _, _)
Assignments(n, val, Free) ==
    IF Free = {} THEN { val }
    ELSE LET v == CHOOSE w \in Free : TRUE IN
         UNION { Assignments(n, [val EXCEPT ![v] = c], Free \ {v}) : c \in Candidates(n, v) }

\* The solutions of the model: fixed variables keep their value, free ones take
\* values that satisfy the equations.  The equation of state behind the state
\* block of PR_model is not part of the repository: any candidate is possible.
Solutions(n, u, fx, val) ==
    LET all == Assignments(n, val, { v \in DOMAIN fx : ~fx[v] }) IN
    IF n = "pr" THEN all
    ELSE IF ~u.built THEN {}
    ELSE { s \in all : Balances(n, u, s) }

----------------------------------------------------------------------------
(* Inputs *)

Notebooks == { "heater", "custom", "pr" }

\* option values a Heater may be constructed with: the members of the
\* enumerations the declared domains name, and a value outside each domain
OptionValues ==
    [ material_balance_type |-> MaterialBalanceType \cup {"enthalpyTotal"},
      energy_balance_type |-> {"enthalpyTotal", "enthalpyPhase"},
      momentum_balance_type |-> {"pressureTotal", "pressurePhase"},
      has_phase_equilibrium |-> BOOLEAN,
      has_pressure_change |-> BOOLEAN ]

\* the configurations a Heater is constructed with
Configs ==
    { [HeaterConfig(d, h) EXCEPT !.material_balance_type = mb,
                                 !.energy_balance_type = eb,
                                 !.momentum_balance_type = pb,
                                 !.has_phase_equilibrium = pe,
                                 !.has_pressure_change = dp] :
        d \in BOOLEAN, h \in BOOLEAN,
        mb \in OptionValues.material_balance_type,
        eb \in OptionValues.energy_balance_type,
        pb \in OptionValues.momentum_balance_type,
        pe \in OptionValues.has_phase_equilibrium,
        dp \in OptionValues.has_pressure_change }

\* the largest liquid mole fraction of carbon dioxide in a data row, in steps of 0.25
MaxRowX == 3

\* rows of the data frame: temperature, pressure, x_bmimPF6, x_carbon_dioxide
DataRows ==
    { test_data } \cup
    { [temperature |-> 298, pressure |-> p, x_bmimPF6 |-> 100 - 25 * k,
       x_carbon_dioxide |-> 25 * k] : p \in { 812323, 100000 }, k \in 0 .. MaxRowX }

\* How a solve can fail, and the iterate the failure leaves in every free
\* variable (a sample of the values an unconverged solver may leave)
Failures == { <<"infeasible", 7>>, <<"maxIterations", 11>> }

NoStatus == [termination_condition |-> "none", status |-> "none"]

----------------------------------------------------------------------------
(* The state machine *)

Program ==
    CASE nb = "heater" -> HeaterTutorial
      [] nb = "custom" ->
           IF config.material_balance_type = HeaterConfig(FALSE, FALSE).material_balance_type
           THEN CustomHeaterTest
           ELSE CustomConstruct
      [] nb = "pr" -> ParameterEstimation(data)

Running == halted = "no" /\ pc \in DOMAIN Program

Stmt == Program[pc]

At(op) == Running /\ Stmt.op = op

\* index of the statement on a source line
IndexOfLine(line) == CHOOSE k \in DOMAIN Program : Program[k].line = line

Unfixed(S) == [v \in S |-> FALSE]
NoValues(S) == [v \in S |-> 0]

Init ==
    /\ nb \in Notebooks
    /\ pc = 1
    /\ halted = "no"
    /\ config \in (IF nb = "custom" THEN Configs ELSE { HeaterConfig(FALSE, FALSE) })
    /\ data \in (IF nb = "pr" THEN DataRows ELSE { test_data })
    /\ unit = (IF nb = "heater" THEN LibraryHeater ELSE NoUnit)
    /\ fixed = (CASE nb = "heater" -> Unfixed(HeaterVars(nb))
                  [] nb = "custom" -> Unfixed({})
                  [] nb = "pr" -> Unfixed(StateBlockVars))
    /\ value = (CASE nb = "heater" -> NoValues(HeaterVars(nb))
                  [] nb = "custom" -> NoValues({})
                  [] nb = "pr" -> NoValues(StateBlockVars))
    /\ bounds = {}
    /\ DOF_initial = -1
    /\ DOF_final = -1
    /\ solve_status = NoStatus
    /\ heat_duty = << >>
    /\ it = 0
    /\ solves = 0
    /\ inits = 0
    /\ sse = NoSSE

\* fs.heater = Heater(default={...}): the configuration is set, which raises
\* ValueError for a value outside its domain; then build() calls
\* make_control_volume, which raises ValueError or attaches the control volume;
\* then the ports are added
Construct ==
    /\ At("construct")
    /\ IF ~ConfigAccepts(config)
       THEN /\ halted' = ConfigError
            /\ UNCHANGED <<pc, unit, fixed, value>>
       ELSE IF make_control_volume_error(config) # "none"
       THEN /\ halted' = "ValueError: " \o make_control_volume_error(config)
            /\ UNCHANGED <<pc, unit, fixed, value>>
       ELSE /\ unit' = make_control_volume(config)
            /\ fixed' = Unfixed(HeaterVars(nb))
            /\ value' = NoValues(HeaterVars(nb))
            /\ pc' = pc + 1
            /\ halted' = halted
    /\ UNCHANGED <<sse, nb, config, data, bounds, DOF_initial, DOF_final, solve_status,
                   heat_duty, it, solves, inits>>

\* var.fix(val)
Fix ==
    /\ At("fix")
    /\ fixed' = [fixed EXCEPT ![Stmt.var] = TRUE]
    /\ value' = [value EXCEPT ![Stmt.var] = Stmt.val]
    /\ pc' = pc + 1
    /\ UNCHANGED <<sse, nb, halted, config, unit, data, bounds, DOF_initial, DOF_final,
                   solve_status, heat_duty, it, solves, inits>>

\* var.unfix()
Unfix ==
    /\ At("unfix")
    /\ fixed' = [fixed EXCEPT ![Stmt.var] = FALSE]
    /\ pc' = pc + 1
    /\ UNCHANGED <<sse, nb, halted, config, unit, data, value, bounds, DOF_initial,
                   DOF_final, solve_status, heat_duty, it, solves, inits>>

\* var.setlb(val), var.setub(val)
SetBound ==
    /\ At("setlb") \/ At("setub")
    /\ bounds' = { b \in bounds : ~(b[1] = Stmt.var /\ b[2] = Stmt.op) }
                   \cup { <<Stmt.var, Stmt.op, Stmt.val>> }
    /\ pc' = pc + 1
    /\ UNCHANGED <<sse, nb, halted, config, unit, data, fixed, value, DOF_initial,
                   DOF_final, solve_status, heat_duty, it, solves, inits>>

\* DOF_initial = degrees_of_freedom(m), DOF_final = degrees_of_freedom(m)
Dof ==
    /\ At("dof")
    /\ IF Stmt.var = V("DOF_initial")
       THEN /\ DOF_initial' = degrees_of_freedom(nb, unit, fixed)
            /\ DOF_final' = DOF_final
       ELSE /\ DOF_final' = degrees_of_freedom(nb, unit, fixed)
            /\ DOF_initial' = DOF_initial
    /\ pc' = pc + 1
    /\ UNCHANGED <<sse, nb, halted, config, unit, data, fixed, value, bounds,
                   solve_status, heat_duty, it, solves, inits>>

\* print, display, report, plot and the other statements that change nothing
Display ==
    /\ At("display")
    /\ pc' = pc + 1
    /\ UNCHANGED <<sse, nb, halted, config, unit, data, fixed, value, bounds, DOF_initial,
                   DOF_final, solve_status, heat_duty, it, solves, inits>>

\* initialize(): the free variables end at a solution, or where they were
Initialize ==
    /\ At("initialize")
    /\ value' \in Solutions(nb, unit, fixed, value) \cup { value }
    /\ inits' = inits + 1
    /\ pc' = pc + 1
    /\ UNCHANGED <<sse, nb, halted, config, unit, data, fixed, bounds, DOF_initial,
                   DOF_final, solve_status, heat_duty, it, solves>>

\* a solver that leaves its iterate in every variable, fixed or not, when it fails
SolveOutcomes_OverwritesFixed(n, u, fx, val) ==
    { [solve_status |-> [termination_condition |-> "optimal", status |-> "ok"],
       value |-> s] :
         s \in (IF degrees_of_freedom(n, u, fx) >= 0 THEN Solutions(n, u, fx, val) ELSE {}) }
    \cup
    { [solve_status |-> [termination_condition |-> f[1], status |-> "warning"],
       value |-> [v \in DOMAIN val |-> f[2]]] : f \in Failures }

\* What opt.solve(m) can return and leave in the model: a solution of the
\* equations with termination condition optimal, or a failure that leaves an
\* iterate in the free variables.
SolveOutcomes(n, u, fx, val) ==
    { [solve_status |-> [termination_condition |-> "optimal", status |-> "ok"],
       value |-> s] :
         s \in (IF degrees_of_freedom(n, u, fx) >= 0 THEN Solutions(n, u, fx, val) ELSE {}) }
    \cup
    { [solve_status |-> [termination_condition |-> f[1], status |-> "warning"],
       value |-> [v \in DOMAIN val |-> IF fx[v] THEN val[v] ELSE f[2]]] :
         f \in Failures }

\* solve_status = opt.solve(m)
Solve ==
    /\ At("solve")
    /\ \E o \in SolveOutcomes(nb, unit, fixed, value) :
          /\ solve_status' = o.solve_status
          /\ value' = o.value
    /\ solves' = solves + 1
    /\ pc' = pc + 1
    /\ UNCHANGED <<sse, nb, halted, config, unit, data, fixed, bounds, DOF_initial,
                   DOF_final, heat_duty, it, inits>>

\* the condition an assert statement tests
AssertHolds(st) ==
    CASE st.op = "assert_eq" ->
           (IF st.var = V("DOF_initial") THEN DOF_initial ELSE DOF_final) = st.val
      [] st.op = "assert_dof" -> degrees_of_freedom(nb, unit, fixed) = st.val
      [] st.op = "assert_status" ->
           (IF st.var = V("status") THEN solve_status.status
            ELSE solve_status.termination_condition) = st.val
      [] st.op = "assert_approx" -> Approx(value[st.var], st.val, st.tol)

AssertOps == { "assert_eq", "assert_dof", "assert_status", "assert_approx" }

\* assert statements that are not executed
AssertResult_Disabled(st) == "no"

\* assert: execution goes on when the condition holds and stops when it does not
AssertResult(st) == IF AssertHolds(st) THEN "no" ELSE "AssertionError"

AssertStmt ==
    /\ Running
    /\ Stmt.op \in AssertOps
    /\ halted' = AssertResult(Stmt)
    /\ pc' = IF halted' = "no" THEN pc + 1 ELSE pc
    /\ UNCHANGED <<sse, nb, config, unit, data, fixed, value, bounds, DOF_initial,
                   DOF_final, solve_status, heat_duty, it, solves, inits>>

\* heat_duty = []
ListInit ==
    /\ At("list_init")
    /\ heat_duty' = << >>
    /\ pc' = pc + 1
    /\ UNCHANGED <<sse, nb, halted, config, unit, data, fixed, value, bounds, DOF_initial,
                   DOF_final, solve_status, it, solves, inits>>

\* for temp in outlet_temp_fixed:
For ==
    /\ At("for")
    /\ IF it < Len(outlet_temp_fixed)
       THEN it' = it + 1 /\ pc' = pc + 1
       ELSE it' = it /\ pc' = IndexOfLine(Stmt.val)
    /\ UNCHANGED <<sse, nb, halted, config, unit, data, fixed, value, bounds, DOF_initial,
                   DOF_final, solve_status, heat_duty, solves, inits>>

\* m.fs.heater.outlet.temperature.fix(temp)
FixTemp ==
    /\ At("fix_temp")
    /\ fixed' = [fixed EXCEPT ![Stmt.var] = TRUE]
    /\ value' = [value EXCEPT ![Stmt.var] = outlet_temp_fixed[it]]
    /\ pc' = pc + 1
    /\ UNCHANGED <<sse, nb, halted, config, unit, data, bounds, DOF_initial, DOF_final,
                   solve_status, heat_duty, it, solves, inits>>

\* if solve_status.solver.termination_condition == TerminationCondition.optimal:
IfOptimal ==
    /\ At("if_optimal")
    /\ pc' = IF solve_status.termination_condition = "optimal"
             THEN pc + 1 ELSE IndexOfLine(Stmt.val)
    /\ UNCHANGED <<sse, nb, halted, config, unit, data, fixed, value, bounds, DOF_initial,
                   DOF_final, solve_status, heat_duty, it, solves, inits>>

\* heat_duty.append(m.fs.heater.heat_duty[0].value)
AppendHeatDuty ==
    /\ At("append")
    /\ heat_duty' = Append(heat_duty, value[Stmt.var])
    /\ pc' = IndexOfLine(Stmt.val)
    /\ UNCHANGED <<sse, nb, halted, config, unit, data, fixed, value, bounds, DOF_initial,
                   DOF_final, solve_status, it, solves, inits>>

\* the objective SSE(m, data) of the row, at the values the solve left in the model
EvalSSE ==
    /\ At("sse")
    /\ sse' = SSE(value, data)
    /\ pc' = pc + 1
    /\ UNCHANGED <<nb, halted, config, unit, data, fixed, value, bounds, DOF_initial,
                   DOF_final, solve_status, heat_duty, it, solves, inits>>

Next ==
    \/ Construct
    \/ Fix
    \/ Unfix
    \/ SetBound
    \/ Dof
    \/ Display
    \/ Initialize
    \/ Solve
    \/ AssertStmt
    \/ ListInit
    \/ For
    \/ FixTemp
    \/ IfOptimal
    \/ AppendHeatDuty
    \/ EvalSSE

Spec == Init /\ [][Next]_vars

----------------------------------------------------------------------------
(* Properties *)

InletVars(n) == PortVars("inlet", Comps(n))

InletFixed == \A v \in InletVars(nb) : fixed[v]

\* the statement execution stands at (or stopped at) is the one on this line
AtLine(n, line) == nb = n /\ pc \in DOMAIN Program /\ Program[pc].line = line

\* C1: in the heater tutorial, whenever the five inlet variables and the outlet
\* temperature are fixed the degrees of freedom are zero, and when the check of
\* DOF_final is reached this is the case, DOF_final is 0, and neither
\* initialize nor the solver has been called.
C1_SquareBeforeSolving ==
    /\ (nb = "heater" /\ InletFixed /\ fixed[V("outlet.temperature")])
          => degrees_of_freedom(nb, unit, fixed) = 0
    /\ AtLine("heater", 154)
          => /\ InletFixed /\ fixed[V("outlet.temperature")]
             /\ DOF_final = 0
             /\ inits = 0 /\ solves = 0

C1_Witness == AtLine("heater", 154) /\ halted = "no" /\ DOF_final = 0

\* C8: a freshly built tutorial heater, with no variable fixed, has six degrees
\* of freedom, and DOF_initial holds 6 when it is checked.
C8_InitialDofSix ==
    /\ (nb = "heater" /\ \A v \in DOMAIN fixed : ~fixed[v])
          => degrees_of_freedom(nb, unit, fixed) = 6
    /\ AtLine("heater", 107) => DOF_initial = 6

C8_Witness ==
    AtLine("heater", 107) /\ DOF_initial = 6 /\ \A v \in DOMAIN fixed : ~fixed[v]

\* the tutorial's model is fully specified: the inlet is fixed and exactly one
\* of outlet temperature and heat duty is
SquareSpecification ==
    /\ InletFixed
    /\ fixed[V("outlet.temperature")] # fixed[V("heat_duty")]
    /\ degrees_of_freedom(nb, unit, fixed) = 0

\* C2: every solver call of the heater tutorial is made with the five inlet
\* variables fixed and exactly one of outlet temperature and heat duty fixed,
\* hence with zero degrees of freedom.
C2_SolveOnlySquare ==
    [][(nb = "heater" /\ solves' # solves) => SquareSpecification]_vars

\* the twelve solver calls (case 1, case 2, ten of the sweep) have been made
C2_Witness == nb = "heater" /\ solves = 12 /\ Len(heat_duty) = Len(outlet_temp_fixed)

Optimal == solve_status.termination_condition = "optimal"

\* outlet flow rate, mole fractions and pressure equal those of the inlet
OutletMatchesInlet ==
    /\ value[V("outlet.flow_mol")] = value[V("inlet.flow_mol")]
    /\ \A j \in Comps(nb) : value[OutletX(j)] = value[InletX(j)]
    /\ value[V("outlet.pressure")] = value[V("inlet.pressure")]

\* C3: after a heater solve that terminated optimal (library heater of the
\* tutorial or custom Heater), the outlet flow rate, mole fractions and
\* pressure equal the fixed inlet ones.
C3_OutletEqualsInlet ==
    (nb \in {"heater", "custom"} /\ Optimal) => (InletFixed /\ OutletMatchesInlet)

C3_Witness == nb = "heater" /\ Optimal /\ solves = 12

C6_ResultsCheckedOnlyIfOptimal ==
    (pc \in DOMAIN Program /\ Program[pc].op = "assert_approx")
       => /\ Optimal
          /\ nb = "heater" => solve_status.status = "ok"

C6_Witness == AtLine("custom", 173) /\ halted = "no" /\ Optimal

\* C7: for every data row, the model PR_model returns has zero degrees of freedom.
C7_PRModelSquare ==
    (nb = "pr" /\ pc > Len(PR_model(data))) => degrees_of_freedom(nb, unit, fixed) = 0

C7_Witness == AtLine("pr", 213) /\ halted = "no" /\ data # test_data

FailingAssert == Running /\ Stmt.op \in AssertOps /\ ~AssertHolds(Stmt)

\* C10: an assertion that fails halts execution at that assertion, leaving the
\* model as it is, and once execution has halted no statement runs: the solver
\* is not called again and the model is not modified.
C10_AssertionsHalt ==
    [][/\ halted = "no"
       /\ FailingAssert
            => /\ halted' = "AssertionError" /\ pc' = pc
               /\ UNCHANGED <<fixed, value, bounds, solve_status, solves, inits>>]_vars

C10_Witness ==
    /\ halted = "AssertionError" /\ solves = 1
    /\ Program[pc].op = "assert_status" /\ ~Optimal

\* the lines of the cells that read results: report, display and the checks
ReportLines == { 241, 251, 268, 270, 271, 272, 273, 274,
                 319, 329, 344, 346, 347, 348, 349, 350, 391, 405 }

\* the lines of the sweep cell and of the plot
SweepLines == { 371, 374, 386, 387, 388, 389, 390, 391, 405 }

\* C11: the heater tutorial runs build, fix specifications, initialize, solve,
\* report, sweep in this order.  initialize is called only with zero degrees
\* of freedom (and after DOF_final was found 0), the solver is called only
\* after both initialize calls returned, a statement that reads results is
\* reached only after a solve returned, and the sweep is reached only after
\* the two solves of case 1 and case 2 and all their checks.
C11_LinearOrder ==
    /\ [][(nb = "heater" /\ inits' # inits)
            => (degrees_of_freedom(nb, unit, fixed) = 0 /\ DOF_final = 0 /\ solves = 0)]_vars
    /\ [][(nb = "heater" /\ solves' # solves) => inits = 2]_vars
    /\ [](\A l \in ReportLines : AtLine("heater", l) => solves >= 1)
    /\ [](\A l \in SweepLines : AtLine("heater", l)
             => (solves >= 2 /\ inits = 2 /\ pc > Len(HeaterSetup \o HeaterCase1 \o HeaterCase2)))
    /\ []((nb = "heater" /\ it > 0) => solves >= 2)

\* the sweep has begun: its first solve has returned after cases 1 and 2
C11_Witness == AtLine("heater", 390) /\ it = 1 /\ solves = 3 /\ inits = 2

\* the statements whose successor never depends on the state of the model
StraightOps ==
    { "fix", "unfix", "setlb", "setub", "dof", "display", "initialize", "solve",
      "list_init", "fix_temp" }

\* C12 as stated: no statement tests a failure condition and behaves
\* differently because of it.  The statement after a sweep solve does the same
\* whatever the termination condition was, and constructing the custom Heater
\* goes on whatever the configuration is.
C12_NoFailureBranch ==
    /\ [][At("if_optimal") => pc' = pc + 1]_vars
    /\ [][At("construct") => (halted' = "no" /\ pc' = pc + 1)]_vars

\* C12, amended: two statements test a failure condition.  The sweep appends
\* a heat duty only after a solve that terminated optimal and goes on to the
\* next temperature otherwise (line 390); constructing the custom Heater stops
\* with ValueError exactly for an option value outside its declared domain
\* (lines 64-73) and for a dynamic or holdup configuration (lines 38-41).
\* Every other statement that is not an assert goes on to the next statement,
\* and there is no retry: no solve statement is repeated for the same case or
\* the same temperature.
C12_FailureBranchesNoRetry ==
    /\ [][At("if_optimal") => (pc' = pc + 1 <=> Optimal)]_vars
    /\ [][(heat_duty' # heat_duty /\ heat_duty' # << >>) => Optimal]_vars
    /\ [][At("construct")
            => (halted' # "no" <=> \/ ~ConfigAccepts(config)
                                  \/ config.dynamic # FALSE
                                  \/ config.has_holdup # FALSE)]_vars
    /\ [][(Running /\ Stmt.op \in StraightOps) => (pc' = pc + 1 /\ halted' = "no")]_vars
    /\ [](solves <= (IF nb = "heater" THEN 2 + it ELSE 1))

\* the sweep skipped the append after a solve that was not optimal and went
\* on to the second temperature
C12_Witness ==
    /\ AtLine("heater", 388) /\ it = 2 /\ solves = 3
    /\ ~Optimal /\ heat_duty = << >>

\* C13: the custom Heater only forwards its configuration.  Whenever a control
\* volume has been built, the options it was built with agree with the
\* configuration: the material balance type and has_phase_equilibrium are the
\* configured ones, the energy and momentum balances written (total enthalpy,
\* total pressure) are the configured types, and has_pressure_change, passed
\* as False, is the configured value.
C13_ForwardsConfiguration ==
    (nb = "custom" /\ unit.built)
       => /\ ConfigAccepts(config)
          /\ unit.balance_type = config.material_balance_type
          /\ unit.has_phase_equilibrium = config.has_phase_equilibrium
          /\ unit.energy_balance = config.energy_balance_type
          /\ unit.momentum_balance = config.momentum_balance_type
          /\ unit.has_pressure_change = config.has_pressure_change

\* a Heater built with an accepted material balance type other than the default
C13_Witness ==
    /\ nb = "custom" /\ unit.built /\ halted = "no"
    /\ config.material_balance_type = "elementTotal"
    /\ unit.balance_type = "elementTotal" /\ ~unit.has_pressure_change

\* C14: when the sweep is over and the plot is reached, heat_duty holds one
\* value per entry of outlet_temp_fixed, the i-th being the heat duty that
\* belongs to the i-th outlet temperature.
C14_OneHeatDutyPerTemperature ==
    AtLine("heater", 405)
       => /\ Len(heat_duty) = Len(outlet_temp_fixed)
          /\ \A i \in DOMAIN heat_duty :
                heat_duty[i] = HeatDuty(FEED_FLOW, outlet_temp_fixed[i] - INLET_TEMPERATURE)

\* the degrees of freedom of the model as it is, and after the step
DofNow == degrees_of_freedom(nb, unit, fixed)
DofNext == degrees_of_freedom(nb', unit', fixed')

\* C15: a fix lowers the degrees of freedom by one when the variable is free
\* and leaves them unchanged when it is already fixed, whatever the value; an
\* unfix of a fixed variable raises them by one.  In the heater tutorial the
\* degrees of freedom are 6 - k after the k-th of the six fixes of lines
\* 117-137.
C15_FixLowersDofByOne ==
    /\ [][(At("fix") \/ At("fix_temp"))
            => DofNext = DofNow - (IF fixed[Stmt.var] THEN 0 ELSE 1)]_vars
    /\ [][(At("unfix") /\ fixed[Stmt.var]) => DofNext = DofNow + 1]_vars
    /\ [](\A k \in 0 .. 6 :
            (nb = "heater" /\ pc = IndexOfLine(117) + k /\ inits = 0) => DofNow = 6 - k)

\* PR_model has fixed mole_frac_comp of bmimPF6 a second time, to a new value
C15_Witness ==
    /\ AtLine("pr", 164) /\ data = test_data
    /\ fixed[X("bmimPF6")] /\ value[X("bmimPF6")] = 86 /\ ~fixed[V("pressure")]
    /\ DofNow = -1

\* the two unit-level specifications of the tutorial heater
UnitSpecs == { V("outlet.temperature"), V("heat_duty") }

\* C16: in the heater tutorial the outlet temperature and the heat duty are
\* never fixed together; when one of them gets fixed the other is free (it was
\* unfixed before); the degrees of freedom are never negative and, with the
\* five inlet variables fixed, are 0 or 1.
C16_OneUnitSpecification ==
    /\ [](nb = "heater"
            => /\ ~(fixed[V("outlet.temperature")] /\ fixed[V("heat_duty")])
               /\ DofNow >= 0
               /\ InletFixed => DofNow \in {0, 1})
    /\ [][(nb = "heater" /\ (At("fix") \/ At("fix_temp")) /\ Stmt.var \in UnitSpecs)
            => \A v \in UnitSpecs \ {Stmt.var} : ~fixed[v]]_vars

\* between case 2 and the sweep: the heat duty is unfixed, the outlet
\* temperature not yet fixed
C16_Witness ==
    /\ AtLine("heater", 388) /\ it = 1 /\ InletFixed
    /\ ~fixed[V("outlet.temperature")] /\ ~fixed[V("heat_duty")]
    /\ DofNow = 1

\* the values lines 117-121 fix the inlet to
InletSpecification ==
    /\ value[V("inlet.flow_mol")] = FEED_FLOW
    /\ value[InletX("benzene")] = 400
    /\ value[InletX("toluene")] = 600
    /\ value[V("inlet.pressure")] = 101325
    /\ value[V("inlet.temperature")] = INLET_TEMPERATURE

\* C17: a solver call changes only free variables: over a solve every variable
\* keeps its fixed status and every fixed variable its value.  From the first
\* initialize on (case 1, case 2 and the sweep) the five inlet variables of the
\* heater tutorial are fixed at the values of lines 117-121.
C17_SolveKeepsFixed ==
    /\ [][solves' # solves
            => /\ fixed' = fixed
               /\ \A v \in DOMAIN fixed : fixed[v] => value'[v] = value[v]]_vars
    /\ []((nb = "heater" /\ pc > IndexOfLine(121)) => (InletFixed /\ InletSpecification))

\* the last solve of the sweep failed, and the specification is as it was
C17_Witness ==
    /\ AtLine("heater", 405) /\ solves = 12 /\ ~Optimal
    /\ InletFixed /\ InletSpecification
    /\ fixed[V("outlet.temperature")]
    /\ value[V("outlet.temperature")] = outlet_temp_fixed[Len(outlet_temp_fixed)]

\* C18: make_control_volume raises ValueError for a configuration whose
\* dynamic is not False, and otherwise for one whose has_holdup is not False
\* (the dynamics error when both hold).  The error comes before the control
\* volume exists: the unit is left without control volume, variables and
\* balance equations.
C18_ValueErrorBeforeControlVolume ==
    /\ [][(At("construct") /\ ConfigAccepts(config))
            => /\ config.dynamic # FALSE
                    => halted' = "ValueError: does not support dynamics"
               /\ (config.dynamic = FALSE /\ config.has_holdup # FALSE)
                    => halted' = "ValueError: does not support holdup"
               /\ (config.dynamic = FALSE /\ config.has_holdup = FALSE)
                    => (halted' = "no" /\ unit'.built)
               /\ halted' # "no"
                    => (unit' = NoUnit /\ Equations(nb, unit') = {} /\ DOMAIN fixed' = {})]_vars
    /\ [](halted \in { "ValueError: does not support dynamics",
                       "ValueError: does not support holdup" }
            => (~unit.built /\ Equations(nb, unit) = {} /\ solves = 0))

\* a configuration with both dynamic and has_holdup set: the dynamics error is raised
C18_Witness ==
    /\ nb = "custom" /\ config.dynamic /\ config.has_holdup
    /\ halted = "ValueError: does not support dynamics"
    /\ unit = NoUnit

\* the option values C19 names as accepted
OnlyDeclaredValues ==
    /\ config.has_phase_equilibrium = FALSE
    /\ config.has_pressure_change = FALSE
    /\ config.energy_balance_type = "enthalpyTotal"
    /\ config.momentum_balance_type = "pressureTotal"
    /\ config.material_balance_type \in MaterialBalanceType

\* C19: constructing the custom Heater is rejected with the configuration's
\* ValueError exactly when an option has a value other than False for
\* has_phase_equilibrium and has_pressure_change, enthalpyTotal for
\* energy_balance_type, pressureTotal for momentum_balance_type and a member
\* of MaterialBalanceType for material_balance_type, whose default is
\* componentPhase.  The rejection comes before build: no control volume is
\* made and make_control_volume raises nothing, even for a dynamic
\* configuration.
C19_ConfigDomains ==
    /\ [][At("construct")
            => /\ halted' = ConfigError <=> ~OnlyDeclaredValues
               /\ ~OnlyDeclaredValues => (unit' = NoUnit /\ pc' = pc /\ fixed' = fixed)]_vars
    /\ [](/\ make_config_block.material_balance_type.default = "componentPhase"
          /\ make_config_block.energy_balance_type.default = "enthalpyTotal"
          /\ make_config_block.momentum_balance_type.default = "pressureTotal"
          /\ make_config_block.has_phase_equilibrium.default = FALSE
          /\ make_config_block.has_pressure_change.default = FALSE
          /\ halted = ConfigError => (~OnlyDeclaredValues /\ ~unit.built))

\* a phase enthalpy balance asked of a dynamic heater: rejected by the
\* configuration, before make_control_volume could raise its own error
C19_Witness ==
    /\ nb = "custom" /\ halted = ConfigError /\ unit = NoUnit
    /\ config.energy_balance_type = "enthalpyPhase" /\ config.dynamic
    /\ config.material_balance_type = "componentTotal"

FixedVars == { v \in DOMAIN fixed : fixed[v] }

\* what is fixed when the state block is initialized (lines 142-153)
PRInitialFixed ==
    { V("flow_mol"), V("temperature"), V("pressure") }
      \cup { X(j) : j \in PRComps } \cup { PR_kappa(i, j) : i \in PRComps, j \in PRComps }

\* what is fixed in the model PR_model returns
PRReturnFixed ==
    (PRInitialFixed \ { V("pressure"), X("carbon_dioxide") })
      \cup { XLiq(j) : j \in PRComps }

\* C20: PR_model initializes the state block with zero degrees of freedom.
\* The re-specification frees two fixed variables (pressure on line 159,
\* mole_frac_comp of carbon dioxide on line 164), fixes two free ones (the
\* liquid-phase mole fractions, lines 161-162) and fixes again two that are
\* fixed (temperature, mole_frac_comp of bmimPF6, lines 160 and 163); setting
\* the bounds fixes nothing.  The returned model has as many fixed variables
\* as the initialized one, and zero degrees of freedom.
C20_RespecificationKeepsSquare ==
    /\ [](AtLine("pr", 156) => (FixedVars = PRInitialFixed /\ DofNow = 0))
    /\ [][(nb = "pr" /\ inits' # inits) => DofNow = 0]_vars
    /\ [][(nb = "pr" /\ Running /\ Stmt.line \in {159, 164})
            => (fixed[Stmt.var] /\ FixedVars' = FixedVars \ {Stmt.var})]_vars
    /\ [][(nb = "pr" /\ Running /\ Stmt.line \in {161, 162})
            => (~fixed[Stmt.var] /\ FixedVars' = FixedVars \cup {Stmt.var})]_vars
    /\ [][(nb = "pr" /\ Running /\ Stmt.line \in {160, 163})
            => (fixed[Stmt.var] /\ fixed' = fixed)]_vars
    /\ [][(nb = "pr" /\ Running /\ Stmt.line \in {166, 167, 169, 170}) => fixed' = fixed]_vars
    /\ []((nb = "pr" /\ pc >= IndexOfLine(173))
            => /\ FixedVars = PRReturnFixed
               /\ Cardinality(FixedVars) = Cardinality(PRInitialFixed)
               /\ DofNow = 0)

\* PR_model is about to return the model of a row with x_carbon_dioxide 0.75
C20_Witness ==
    /\ AtLine("pr", 173) /\ inits = 1 /\ data.x_carbon_dioxide = 75
    /\ ~fixed[V("pressure")] /\ ~fixed[X("carbon_dioxide")]
    /\ fixed[XLiq("bmimPF6")] /\ fixed[XLiq("carbon_dioxide")]
    /\ value[V("temperature")] = data.temperature /\ value[X("bmimPF6")] = data.x_bmimPF6

\* C21: once PR_model has fixed the two feed mole fractions (lines 146-147)
\* and until it changes them again, they sum to one and each lies between 0
\* and 1 (0 and 100 in units of 1e-2), for every data row.
C21_FeedFractionsValid ==
    (nb = "pr" /\ pc > IndexOfLine(147) /\ pc <= IndexOfLine(163))
       => /\ value[X("bmimPF6")] + value[X("carbon_dioxide")] = XUnit(nb)
          /\ value[X("bmimPF6")] \in 0 .. XUnit(nb)
          /\ value[X("carbon_dioxide")] \in 0 .. XUnit(nb)

\* C22: in the model PR_model returns the pressure is free, and the
\* temperature and the two liquid-phase mole fractions are fixed to the row's
\* values.  The SSE term of the row is never negative and is zero exactly when
\* the pressure in the model equals the row's pressure.
C22_SSEZeroIffPressureMatches ==
    /\ []((nb = "pr" /\ pc >= IndexOfLine(173))
            => /\ ~fixed[V("pressure")]
               /\ fixed[V("temperature")] /\ value[V("temperature")] = data.temperature
               /\ fixed[XLiq("bmimPF6")] /\ value[XLiq("bmimPF6")] = data.x_bmimPF6
               /\ fixed[XLiq("carbon_dioxide")]
               /\ value[XLiq("carbon_dioxide")] = data.x_carbon_dioxide)
    /\ [][At("sse")
            => /\ sse'[1] >= 0 /\ sse'[2] >= 0
               /\ sse' = << 0, 0 >> <=> value[V("pressure")] = data.pressure]_vars

\* the solve left a pressure one pascal above the measured one: the SSE term
\* is 1e-7
C22_Witness ==
    /\ nb = "pr" /\ pc > IndexOfLine(253) /\ Optimal
    /\ data = test_data /\ value[V("pressure")] = data.pressure + 1
    /\ sse = << 0, 1 >>

====
